---- MODULE Spec2Model ----
(***************************************************************************)
(* A model of wesmaild: the framed transport (src/src/stream.rs), the      *)
(* server's connection handler (src/src/main.rs), the WML parser           *)
(* (src/wml/src/lib.rs, src/wml/src/effects.rs) and the inspecting relay   *)
(* (src/mitm/src/main.rs).                                                 *)
(*                                                                         *)
(* Bytes are integers 0..255.  A Rust slice that is a suffix of a buffer   *)
(* is modelled by the position (0-based) at which it starts in that        *)
(* buffer; `slc.as_ptr() - input.as_ptr()` is the difference of two such   *)
(* positions.                                                              *)
(***************************************************************************)
EXTENDS Integers, Sequences, FiniteSets, TLC

VARIABLES
    peer,       \* the bytes the remote peer sends on the TCP stream, then it closes
    pos,        \* how many of them the server has read so far
    sent,       \* the bytes the server has written to the peer
    pc,         \* where the modelled task stands
    hbuf,       \* server_handshake: its local `buf`
    rbuf,       \* Reader.buf, the staging buffer
    delivered,  \* the results Reader::read has returned, in call order
    mbuf,       \* handle_connection: its `buf: [u8; 4]`
    hsn,        \* handle_connection: bytes of `sent` written by the handshake write
    errOut,     \* the bytes send_error has written to its stream
    text,       \* DocProcessor::parse: the buffer `buf` handed to it
    arena,      \* DocProcessor.arena: parses allocated into it since the last reset
    doc,        \* the outcome of the last DocProcessor::parse
    ops,        \* what has been called on the DocProcessor so far, in call order
    made,       \* the tags and attributes the document in `text` was written from
    lexIn,      \* input slice of a lexing function applied on its own
    lexOut,     \* what that function returned
    ibuf,       \* process_msg: the closure's `buf`
    istate,     \* process_msg: the closure's `state`
    side,       \* process_msg: the `side` the closure was made for
    decoded,    \* process_msg: what the closure has logged, in order
    seen,       \* the bytes on_msg has been shown so far
    link        \* what the source half of run_middle has reported so far

vars == <<peer, pos, sent, pc, hbuf, rbuf, delivered, mbuf, hsn, errOut,
          text, arena, doc, ops, made, lexIn, lexOut,
          ibuf, istate, side, decoded, seen, link>>

connVars == <<peer, pos, sent, pc>>
streamVars == <<hbuf, rbuf, delivered>>
mainVars == <<mbuf, hsn, errOut>>
wmlVars == <<text, arena, doc, ops, made>>
lexVars == <<lexIn, lexOut>>
relayVars == <<ibuf, istate, side, decoded, seen, link>>

(***************************************************************************)
(* Bounds of the model.                                                    *)
(***************************************************************************)
\* the largest number of bytes one socket read returns
MaxChunk == 8
\* how many times the caller calls Reader::read
MaxReads == 3

Min(a, b) == IF a < b THEN a ELSE b

\* s without its first n elements (Vec::drain(..n), &s[n..])
Drop(s, n) == SubSeq(s, n + 1, Len(s))

RECURSIVE Flatten(_)
Flatten(ss) == IF ss = <<>> THEN <<>> ELSE Head(ss) \o Flatten(Tail(ss))

(***************************************************************************)
(* Big-endian u32 and the gzip codec of the flate2 crate.                  *)
(*                                                                         *)
(* A gzip member is the 10-byte header (magic 31 139, method 8, no flags,  *)
(* no mtime, XFL 2 for Compression::best, OS 255), a DEFLATE stream, the   *)
(* CRC-32 and the length of the data, both little-endian.  The DEFLATE     *)
(* stream of the model is always one final stored block (1, LEN, NLEN,     *)
(* data), and a position-weighted byte sum stands for the CRC-32 (it stays *)
(* far below 2^32 for the payloads of the model).                          *)
(***************************************************************************)
ToBeBytes(n) ==
    << (n \div 16777216) % 256, (n \div 65536) % 256, (n \div 256) % 256, n % 256 >>

FromBeBytes(a, b, c, d) == a * 16777216 + b * 65536 + c * 256 + d

ToLeBytes(n) ==
    << n % 256, (n \div 256) % 256, (n \div 65536) % 256, (n \div 16777216) % 256 >>

FromLeBytes(a, b, c, d) == FromBeBytes(d, c, b, a)

RECURSIVE Crc32(_)
Crc32(p) ==
    IF p = <<>> THEN 0
    ELSE Crc32(SubSeq(p, 1, Len(p) - 1)) + Len(p) * (p[Len(p)] + 1)

GzHeader == <<31, 139, 8, 0, 0, 0, 0, 0, 2, 255>>

DeflateStored(p) ==
    << 1, Len(p) % 256, Len(p) \div 256, 255 - (Len(p) % 256), 255 - (Len(p) \div 256) >> \o p

\* GzEncoder::new(Vec::new(), Compression::best()), write_all(p), finish()
GzEncode(p) == GzHeader \o DeflateStored(p) \o ToLeBytes(Crc32(p)) \o ToLeBytes(Len(p))

\* One gzip member at the head of s: [ok, data, used].
GzMember(s) ==
    IF Len(s) < 23 \/ SubSeq(s, 1, 4) # SubSeq(GzHeader, 1, 4) \/ s[11] # 1
    THEN [ok |-> FALSE, data |-> <<>>, used |-> 0]
    ELSE LET n == s[12] + 256 * s[13]
             d == SubSeq(s, 16, 15 + n)
         IN  IF /\ s[14] = 255 - s[12]
                /\ s[15] = 255 - s[13]
                /\ Len(s) >= 23 + n
                /\ FromLeBytes(s[16 + n], s[17 + n], s[18 + n], s[19 + n]) = Crc32(d)
                /\ FromLeBytes(s[20 + n], s[21 + n], s[22 + n], s[23 + n]) = n
             THEN [ok |-> TRUE, data |-> d, used |-> 23 + n]
             ELSE [ok |-> FALSE, data |-> <<>>, used |-> 0]

\* MultiGzDecoder::new(s).read_to_end(&mut gz_buf): one or more members, nothing
\* else; [ok, data].  No bytes at all is no gzip stream.
RECURSIVE MultiGzDecode(_)
MultiGzDecode(s) ==
    LET m == GzMember(s) IN
    IF ~m.ok THEN [ok |-> FALSE, data |-> <<>>]
    ELSE IF m.used = Len(s) THEN [ok |-> TRUE, data |-> m.data]
    ELSE LET r == MultiGzDecode(Drop(s, m.used))
         IN  [ok |-> r.ok, data |-> IF r.ok THEN m.data \o r.data ELSE <<>>]

\* A frame of the wire protocol: big-endian u32 length, then that many bytes.
Frame(body) == ToBeBytes(Len(body)) \o body

(***************************************************************************)
(* The peers of the model.                                                 *)
(***************************************************************************)
ClientHandshake == <<0, 0, 0, 0>>

PayloadA == <<65>>
PayloadB == <<66, 67>>

PeerStreams ==
    { ClientHandshake \o Frame(GzEncode(PayloadA)) \o Frame(GzEncode(PayloadB)),
      ClientHandshake \o Frame(GzEncode(PayloadB)),
      ClientHandshake \o Frame(GzEncode(PayloadA) \o GzEncode(PayloadB)),
      ClientHandshake \o Frame(<<9, 9>>) \o Frame(GzEncode(PayloadA)),
      ClientHandshake \o <<1, 0, 0, 1, 7, 7, 7, 7, 7, 7, 7, 7, 7, 7>>,
      ClientHandshake \o <<0, 0, 0>>,
      ClientHandshake,
      <<0, 0, 0, 1, 0, 0, 0, 0>>,
      <<1, 0, 0, 0>>,
      <<0, 0, 1, 0, 0, 0, 0, 0, 0>>,
      <<0, 0>>,
      <<>> }

\* The sizes a socket read can return now: at least one byte, at most what the
\* peer has still to send and what one read takes.
ChunkSizes == 1 .. Min(MaxChunk, Len(peer) - pos)

Chunk(n) == SubSeq(peer, pos + 1, pos + n)

(***************************************************************************)
(* server_handshake (src/src/stream.rs)                                    *)
(***************************************************************************)
SERVER_HANDSHAKE_RESPONSE == ToBeBytes(42)

\* `if let [0, 0, 0, 0, ..] = *buf`, with a bug: the fourth byte is not looked at
IsClientHandshakeLoose(buf) == Len(buf) >= 4 /\ SubSeq(buf, 1, 3) = <<0, 0, 0>>

\* `if let [0, 0, 0, 0, ..] = *buf`
IsClientHandshake(buf) == Len(buf) >= 4 /\ SubSeq(buf, 1, 4) = <<0, 0, 0, 0>>

\* `buf.drain(..4)`, with a bug: nothing is drained
HandshakeDrainNone(buf) == buf

\* `buf.drain(..4)`
HandshakeDrain(buf) == Drop(buf, 4)

\* One turn of the loop: a read that returns n > 0 bytes, and what follows it.
HsRead ==
    /\ pc = "handshake"
    /\ \E n \in ChunkSizes :
         LET buf == hbuf \o Chunk(n) IN
         /\ pos' = pos + n
         /\ IF IsClientHandshake(buf)
            THEN \/ /\ sent' = sent \o SERVER_HANDSHAKE_RESPONSE
                    /\ hbuf' = HandshakeDrain(buf)
                    /\ rbuf' = HandshakeDrain(buf)
                    /\ pc' = "framed"
                 \/ \* write_all fails, after k bytes went out
                    \E k \in 0 .. 3 :
                       /\ sent' = sent \o SubSeq(SERVER_HANDSHAKE_RESPONSE, 1, k)
                       /\ hbuf' = buf
                       /\ rbuf' = rbuf
                       /\ pc' = "failed"
            ELSE /\ hbuf' = buf
                 /\ UNCHANGED <<sent, rbuf>>
                 /\ pc' = IF Len(buf) >= 4 THEN "failed" ELSE "handshake"
    /\ UNCHANGED <<peer, delivered, mainVars, wmlVars, lexVars, relayVars>>

\* The read returns Ok(0): the peer has closed.
HsEof ==
    /\ pc = "handshake"
    /\ pos = Len(peer)
    /\ pc' = "failed"
    /\ UNCHANGED <<peer, pos, sent, streamVars, mainVars, wmlVars, lexVars, relayVars>>

\* The read returns Err(e).
HsReadErr ==
    /\ pc = "handshake"
    /\ pc' = "failed"
    /\ UNCHANGED <<peer, pos, sent, streamVars, mainVars, wmlVars, lexVars, relayVars>>

(***************************************************************************)
(* Reader::read (src/src/stream.rs)                                        *)
(***************************************************************************)
\* `let len = u32::from_be_bytes([a, b, c, d]) as usize`, of a buf of >= 4 bytes
FrameLen(buf) == FromBeBytes(buf[1], buf[2], buf[3], buf[4])

\* `if let [a, b, c, d, ref rest @ ..] = *self.buf` and `rest.len() >= len`
HasFrame(buf) == Len(buf) >= 4 /\ Len(buf) - 4 >= FrameLen(buf)

\* What read returns for a buf that holds a frame: the decoder on `&rest[..len]`.
ReadResult(buf) ==
    LET gz == MultiGzDecode(SubSeq(buf, 5, 4 + FrameLen(buf)))
    IN  IF gz.ok THEN [ok |-> TRUE, data |-> gz.data] ELSE [ok |-> FALSE, data |-> <<>>]

\* What read leaves in self.buf when it returns a frame: the buffer as it was.
BufAfterFrame(buf) == buf

ReadErrResult == [ok |-> FALSE, data |-> <<>>]

\* The buffer holds a whole frame: read returns it (or the decoder's failure).
ReadFrame ==
    /\ pc = "framed"
    /\ Len(delivered) < MaxReads
    /\ HasFrame(rbuf)
    /\ delivered' = Append(delivered, ReadResult(rbuf))
    /\ rbuf' = BufAfterFrame(rbuf)
    /\ UNCHANGED <<connVars, hbuf, mainVars, wmlVars, lexVars, relayVars>>

\* No whole frame yet: read_buf appends n > 0 bytes and the loop goes round.
ReadMore ==
    /\ pc = "framed"
    /\ Len(delivered) < MaxReads
    /\ ~HasFrame(rbuf)
    /\ \E n \in ChunkSizes :
         /\ rbuf' = rbuf \o Chunk(n)
         /\ pos' = pos + n
    /\ UNCHANGED <<peer, sent, pc, hbuf, delivered, mainVars, wmlVars, lexVars, relayVars>>

\* No whole frame and read_buf returns Ok(0): read returns Err(()).
ReadEof ==
    /\ pc = "framed"
    /\ Len(delivered) < MaxReads
    /\ ~HasFrame(rbuf)
    /\ pos = Len(peer)
    /\ delivered' = Append(delivered, ReadErrResult)
    /\ UNCHANGED <<connVars, hbuf, rbuf, mainVars, wmlVars, lexVars, relayVars>>

\* No whole frame and read_buf returns Err(e): read returns Err(()).
ReadFails ==
    /\ pc = "framed"
    /\ Len(delivered) < MaxReads
    /\ ~HasFrame(rbuf)
    /\ delivered' = Append(delivered, ReadErrResult)
    /\ UNCHANGED <<connVars, hbuf, rbuf, mainVars, wmlVars, lexVars, relayVars>>

IdleMain == mbuf = <<>> /\ hsn = 0 /\ errOut = <<>>
IdleWml ==
    /\ text = <<>>
    /\ arena = 0
    /\ doc = [res |-> "none", top |-> <<>>, cursor |-> 0, log |-> {}]
    /\ ops = <<>>
    /\ made = <<>>
IdleLex == lexIn = <<>> /\ lexOut = <<>>
IdleRelay ==
    /\ ibuf = <<>>
    /\ istate = "PreHandshake"
    /\ side = "Client"
    /\ decoded = <<>>
    /\ seen = <<>>
    /\ link = "open"
IdleStream == hbuf = <<>> /\ rbuf = <<>> /\ delivered = <<>>

InitStream ==
    /\ peer \in PeerStreams
    /\ pos = 0
    /\ sent = <<>>
    /\ pc = "handshake"
    /\ IdleStream
    /\ IdleMain
    /\ IdleRelay
    /\ IdleWml
    /\ IdleLex

NextStream ==
    \/ HsRead
    \/ HsEof
    \/ HsReadErr
    \/ ReadFrame
    \/ ReadMore
    \/ ReadEof
    \/ ReadFails

SpecStream == InitStream /\ [][NextStream]_vars

(***************************************************************************)
(* Claims about the framed transport, checked under SpecStream.            *)
(***************************************************************************)
\* The frames a byte stream holds, read off the stream itself: each a 4-byte
\* big-endian length and that many bytes; a cut-off tail is no frame.
RECURSIVE WireFrames(_)
WireFrames(s) ==
    IF Len(s) >= 4 /\ Len(s) - 4 >= FromBeBytes(s[1], s[2], s[3], s[4])
    THEN LET n == FromBeBytes(s[1], s[2], s[3], s[4])
         IN  <<SubSeq(s, 5, 4 + n)>> \o WireFrames(Drop(s, 4 + n))
    ELSE <<>>

\* The peer sends the handshake and then complete frames of gzip data only.
PeerSendsFrames ==
    /\ Len(peer) >= 4
    /\ SubSeq(peer, 1, 4) = <<0, 0, 0, 0>>
    /\ LET fr == WireFrames(Drop(peer, 4))
       IN  /\ Flatten([i \in 1 .. Len(fr) |-> Frame(fr[i])]) = Drop(peer, 4)
           /\ \A i \in 1 .. Len(fr) : MultiGzDecode(fr[i]).ok

IsOk(r) == r.ok

\* C1: when the peer sends complete frames f1..fn after the handshake, then
\* however the reads split them, the k-th successful Reader::read returns the
\* decompressed payload of fk: in order, none repeated, none skipped.
C1_InOrderDelivery ==
    PeerSendsFrames =>
        LET oks == SelectSeq(delivered, IsOk)
            fr == WireFrames(Drop(peer, 4))
        IN  \A k \in 1 .. Len(oks) :
                /\ k <= Len(fr)
                /\ oks[k].data = MultiGzDecode(fr[k]).data

\* The peer's first four bytes are not [0,0,0,0], or it closes before four.
BadClientHandshake == Len(peer) < 4 \/ SubSeq(peer, 1, 4) # <<0, 0, 0, 0>>

\* C2: a peer whose first four bytes are not [0,0,0,0] (or who closes before
\* sending four) is never given a Reader and Writer, is written nothing, and
\* once its four bytes have been read, however split, server_handshake has
\* returned an error.
C2_BadHandshakeRejected ==
    BadClientHandshake =>
        /\ pc \in {"handshake", "failed"}
        /\ sent = <<>>
        /\ rbuf = <<>>
        /\ delivered = <<>>
        /\ (Len(hbuf) >= 4 => pc = "failed")

\* A bad handshake that arrived in more than one read has been rejected.
C2_Witness ==
    /\ BadClientHandshake
    /\ pc = "failed"
    /\ Len(hbuf) >= 4
    /\ SubSeq(hbuf, 1, 3) = <<0, 0, 0>>

\* C3: the step in which server_handshake returns its Reader and Writer has
\* written exactly [0,0,0,42], the peer's first four bytes are [0,0,0,0], and
\* the Reader's buffer is exactly the bytes read beyond those four, in order.
C3_HandshakeAccepted ==
    [][ (pc = "handshake" /\ pc' = "framed") =>
            /\ sent' = <<0, 0, 0, 42>>
            /\ SubSeq(peer, 1, 4) = <<0, 0, 0, 0>>
            /\ pos' >= 4
            /\ rbuf' = SubSeq(peer, 5, pos') ]_vars

\* One first read took [0,0,0,0,X,Y,Z,W]: the Reader starts with [X,Y,Z,W].
C3_Witness ==
    /\ pc = "framed"
    /\ pos = 8
    /\ Len(hbuf) = 4
    /\ rbuf = SubSeq(peer, 5, 8)
    /\ sent = <<0, 0, 0, 42>>
    /\ delivered = <<>>

\* The per-frame maximum the specification recommends: 16 MiB.
DefaultMaxFrame == 16 * 1024 * 1024

\* C4: once the length prefix at the head of the staging buffer exceeds the
\* per-frame maximum, Reader::read reads no further byte from the source.
C4_OversizedFrameStopsReading ==
    [][ (pc = "framed" /\ Len(rbuf) >= 4 /\ FrameLen(rbuf) > DefaultMaxFrame) =>
            (rbuf' = rbuf /\ pos' = pos) ]_vars

(***************************************************************************)
(* handle_connection and send_error (src/src/main.rs)                      *)
(***************************************************************************)
HANDSHAKE_RESPONSE == ToBeBytes(42)

\* "[version]\n[/version]\n"
VersionQuery ==
    <<91, 118, 101, 114, 115, 105, 111, 110, 93, 10, 91, 47, 118, 101, 114, 115, 105, 111, 110, 93, 10>>

VERSION_QUERY_RESPONSE == GzEncode(VersionQuery)

\* format!("[error]message=\"{}\"[/error]", error)
ErrorMessage(error) ==
    <<91, 101, 114, 114, 111, 114, 93, 109, 101, 115, 115, 97, 103, 101, 61, 34>>
    \o error \o <<34, 91, 47, 101, 114, 114, 111, 114, 93>>

\* The texts send_error is called with: "", "no", "a\"b"
ErrorTexts == { <<>>, <<110, 111>>, <<97, 34, 98>> }

\* `let mut buf = [0; 4]` after `stream.read(&mut buf)` took the bytes got
ReadInto4(got) == got \o SubSeq(<<0, 0, 0, 0>>, Len(got) + 1, 4)

\* `buf.cmp(&[0; 4])` is Ordering::Equal
HandshakeEqual(buf) == buf = <<0, 0, 0, 0>>

\* `stream.read(&mut buf)` returns Ok(n), n = 0 when the peer has closed, and the
\* match on `buf.cmp(&[0; 4])` follows.
McRead ==
    /\ pc = "m_start"
    /\ \E n \in 0 .. Min(4, Len(peer) - pos) :
         /\ (n = 0 => pos = Len(peer))
         /\ mbuf' = ReadInto4(Chunk(n))
         /\ pos' = pos + n
         /\ pc' = IF HandshakeEqual(ReadInto4(Chunk(n))) THEN "m_accepted" ELSE "m_incorrect"
    /\ UNCHANGED <<peer, sent, hsn, errOut, streamVars, wmlVars, lexVars, relayVars>>

\* `stream.read(&mut buf)` returns Err: Disconnect.
McReadErr ==
    /\ pc \in {"m_start", "m_queried"}
    /\ pc' = "m_disconnect"
    /\ UNCHANGED <<peer, pos, sent, mainVars, streamVars, wmlVars, lexVars, relayVars>>

\* `stream.write(&HANDSHAKE_RESPONSE)` returns Ok(k): k of the 4 bytes went out.
McWriteHandshake ==
    /\ pc = "m_accepted"
    /\ \E k \in 1 .. 4 :
         /\ sent' = sent \o SubSeq(HANDSHAKE_RESPONSE, 1, k)
         /\ hsn' = k
    /\ pc' = "m_responded"
    /\ UNCHANGED <<peer, pos, mbuf, errOut, streamVars, wmlVars, lexVars, relayVars>>

\* `stream.write_all(&VERSION_QUERY_RESPONSE)` returns Ok(()).
McWriteQuery ==
    /\ pc = "m_responded"
    /\ sent' = sent \o VERSION_QUERY_RESPONSE
    /\ pc' = "m_queried"
    /\ UNCHANGED <<peer, pos, mainVars, streamVars, wmlVars, lexVars, relayVars>>

\* A write returns Err: Disconnect.  A failed write_all may have put a part out.
McWriteErr ==
    /\ \/ /\ pc = "m_accepted"
          /\ UNCHANGED sent
       \/ /\ pc = "m_responded"
          /\ \E k \in 0 .. Len(VERSION_QUERY_RESPONSE) - 1 :
               sent' = sent \o SubSeq(VERSION_QUERY_RESPONSE, 1, k)
    /\ pc' = "m_disconnect"
    /\ UNCHANGED <<peer, pos, mainVars, streamVars, wmlVars, lexVars, relayVars>>

\* The second `stream.read(&mut buf)`, into a fresh [0; 4], returns Ok(n).
McReadVersion ==
    /\ pc = "m_queried"
    /\ \E n \in 0 .. Min(4, Len(peer) - pos) :
         /\ (n = 0 => pos = Len(peer))
         /\ mbuf' = ReadInto4(Chunk(n))
         /\ pos' = pos + n
    /\ pc' = "m_idle"
    /\ UNCHANGED <<peer, sent, hsn, errOut, streamVars, wmlVars, lexVars, relayVars>>

\* `loop { yield_now().await }`
McYield ==
    /\ pc = "m_idle"
    /\ UNCHANGED vars

\* send_error(stream, error, bzip2): the gzip of the message goes out with
\* write_all, whatever bzip2 is; on a failed write a part of it may have.
SendError ==
    /\ pc = "e_start"
    /\ \E error \in ErrorTexts, bzip2 \in BOOLEAN :
         LET out == GzEncode(ErrorMessage(error)) IN
         \/ /\ errOut' = out
            /\ pc' = "e_done"
         \/ /\ \E k \in 0 .. Len(out) - 1 : errOut' = SubSeq(out, 1, k)
            /\ pc' = "e_disconnect"
    /\ UNCHANGED <<peer, pos, sent, mbuf, hsn, streamVars, wmlVars, lexVars, relayVars>>

InitMain ==
    /\ peer \in PeerStreams
    /\ pos = 0
    /\ sent = <<>>
    /\ pc \in {"m_start", "e_start"}
    /\ IdleStream
    /\ IdleMain
    /\ IdleRelay
    /\ IdleWml
    /\ IdleLex

NextMain ==
    \/ McRead
    \/ McReadErr
    \/ McWriteHandshake
    \/ McWriteQuery
    \/ McWriteErr
    \/ McReadVersion
    \/ McYield
    \/ SendError

SpecMain == InitMain /\ [][NextMain]_vars

(***************************************************************************)
(* Claims about the connection handler, checked under SpecMain.            *)
(***************************************************************************)
\* s is a sequence of well-formed frames: each a 4-byte big-endian length and
\* exactly that many bytes, which are gzip data.
IsFrameStream(s) ==
    LET fr == WireFrames(s)
    IN  /\ Flatten([i \in 1 .. Len(fr) |-> Frame(fr[i])]) = s
        /\ \A i \in 1 .. Len(fr) : MultiGzDecode(fr[i]).ok

\* C5: what the connection handler has written after the handshake response
\* (the version query), and what send_error has written, is a sequence of
\* well-formed frames.
C5_ServerWritesFrames ==
    /\ (pc \in {"m_queried", "m_idle"} => IsFrameStream(Drop(sent, hsn)))
    /\ (pc = "e_done" => IsFrameStream(errOut))

\* C6: handle_connection accepts the handshake and writes to the peer only
\* when four bytes have arrived from the peer and all four are 0.
C6_HandshakeNeedsFourZeros ==
    (pc \in {"m_accepted", "m_responded", "m_queried", "m_idle"} \/ sent # <<>>) =>
        /\ pos >= 4
        /\ SubSeq(peer, 1, 4) = <<0, 0, 0, 0>>

(***************************************************************************)
(* The WML parser (src/wml/src/lib.rs, src/wml/src/effects.rs)             *)
(*                                                                         *)
(* Every slice the parser handles is a suffix of the buffer, so a slice is *)
(* the position where it starts.  A parser takes the buffer, its input     *)
(* slice and the `offset` it was told that slice has, and returns          *)
(* [st, rest, val, log]: st is "ok", "err" (Err(())) or "panic" (an        *)
(* unwrap or an index out of range aborted the parse), rest the remaining  *)
(* slice, val the node, log what happened on the way (see LogKey).         *)
(***************************************************************************)
\* StringKey { idx, len }; `at` records where the keyed bytes really start.
StringKey(idx, len, at) == [idx |-> idx, len |-> len, at |-> at]

\* A StringKey was constructed.
LogKey(key) == [ev |-> "key", idx |-> key.idx, len |-> key.len]

\* Tag::parse found a closing name that differs from the opening name.
LogMismatch(key) == [ev |-> "mismatch", idx |-> key.idx, len |-> key.len]

POk(rest, val, log) == [st |-> "ok", rest |-> rest, val |-> val, log |-> log]
PErr(log) == [st |-> "err", rest |-> 0, val |-> <<>>, log |-> log]
PPanic(log) == [st |-> "panic", rest |-> 0, val |-> <<>>, log |-> log]

\* `input.starts_with(tag)`
StartsWith(buf, input, tag) ==
    input + Len(tag) <= Len(buf) /\ SubSeq(buf, input + 1, input + Len(tag)) = tag

\* tagged(tag, input): [ok, rest]
Tagged(tag, buf, input) ==
    IF StartsWith(buf, input, tag)
    THEN [ok |-> TRUE, rest |-> input + Len(tag)]
    ELSE [ok |-> FALSE, rest |-> input]

\* `while let [<a byte of set>, rest @ ..] = cursor { cursor = rest; }`
RECURSIVE ScanWhile(_, _, _)
ScanWhile(buf, cursor, set) ==
    IF cursor < Len(buf) /\ buf[cursor + 1] \in set
    THEN ScanWhile(buf, cursor + 1, set)
    ELSE cursor

\* b' ' | b'\t'
BlankBytes == {32, 9}

\* whitespace(input): [ok, rest]
Whitespace(buf, input) ==
    LET cursor == ScanWhile(buf, input, BlankBytes)
    IN  [ok |-> cursor - input > 0, rest |-> cursor]

\* Or<A, B>::count over byte-string predicates, tried in order
RECURSIVE OrCount(_, _, _)
OrCount(tags, buf, input) ==
    IF tags = <<>> THEN 0
    ELSE IF StartsWith(buf, input, Head(tags)) /\ Len(Head(tags)) > 0 THEN Len(Head(tags))
    ELSE OrCount(Tail(tags), buf, input)

\* tagged_many0(tag, input)
RECURSIVE TaggedMany0(_, _, _)
TaggedMany0(tags, buf, cursor) ==
    LET count == OrCount(tags, buf, cursor)
    IN  IF count > 0 THEN TaggedMany0(tags, buf, cursor + count) ELSE cursor

\* b"\n".or(b"\t")
NlOrTab == << <<10>>, <<9>> >>

\* ::core::str::from_utf8(bytes).is_ok()
RECURSIVE IsUtf8(_)
IsUtf8(s) ==
    IF s = <<>> THEN TRUE
    ELSE LET b == s[1]
             Cont(i) == i <= Len(s) /\ s[i] \in 128 .. 191
         IN  IF b < 128 THEN IsUtf8(Drop(s, 1))
             ELSE IF b \in 194 .. 223 THEN Cont(2) /\ IsUtf8(Drop(s, 2))
             ELSE IF b \in 224 .. 239
                  THEN /\ Cont(2) /\ Cont(3)
                       /\ (b = 224 => s[2] >= 160)
                       /\ (b = 237 => s[2] <= 159)
                       /\ IsUtf8(Drop(s, 3))
             ELSE IF b \in 240 .. 244
                  THEN /\ Cont(2) /\ Cont(3) /\ Cont(4)
                       /\ (b = 240 => s[2] >= 144)
                       /\ (b = 244 => s[2] <= 143)
                       /\ IsUtf8(Drop(s, 4))
             ELSE FALSE

\* Printer::get_bytes does not go out of range: `&self.data[key.idx .. key.idx + key.len]`
KeyInRange(buf, key) == key.idx + key.len <= Len(buf)

\* e.get_str(key).unwrap() returns: the range is in the buffer and is UTF-8
GetStrOk(buf, key) ==
    KeyInRange(buf, key) /\ IsUtf8(SubSeq(buf, key.idx + 1, key.idx + key.len))

\* b'a'..=b'z' | b'A'..=b'Z' | b'0'..=b'9' | b'_'
NameBytes == (97 .. 122) \cup (65 .. 90) \cup (48 .. 57) \cup {95}

\* Name::parse
NameParse(buf, input, offset) ==
    LET cursor == ScanWhile(buf, input, NameBytes)
        name_len == cursor - input
        name == StringKey(offset, name_len, input)
    IN  IF name_len > 0 THEN POk(cursor, name, {LogKey(name)}) ELSE PErr({})

\* b'a'..=b'z' | b'A'..=b'Z' | b'0'..=b'9' | b'_' | b'-'
DomainBytes == NameBytes \cup {45}

\* b"#textdomain"
TextDomainTag == <<35, 116, 101, 120, 116, 100, 111, 109, 97, 105, 110>>

\* TextDomain::parse
TextDomainParse(buf, input, offset) ==
    LET t == Tagged(TextDomainTag, buf, input) IN
    IF ~t.ok THEN PErr({}) ELSE
    LET w == Whitespace(buf, t.rest) IN
    IF ~w.ok THEN PErr({}) ELSE
    LET rest == w.rest
        cursor == ScanWhile(buf, rest, DomainBytes)
        len == cursor - rest
        name == StringKey(rest - input + offset, len, rest)
    IN  IF len > 0
        THEN IF ~GetStrOk(buf, name) THEN PPanic({LogKey(name)})
             ELSE LET n == Tagged(<<10>>, buf, cursor)
                  IN  IF n.ok THEN POk(n.rest, name, {LogKey(name)})
                      ELSE PErr({LogKey(name)})
        ELSE PErr({})

\* Text::parse: the loop stops at b'+' or b'\n'
TextParse(buf, input, offset) ==
    LET cursor == ScanWhile(buf, input, (0 .. 255) \ {43, 10})
        content == StringKey(offset, cursor - input, input)
    IN  POk(cursor, content, {LogKey(content)})

\* WString::parse, its loop:
\* `while let &[a, b, ref rest @ ..] = cursor {
\*      if a != b'"' || (a == b'"' && b == b'"') { cursor = &cursor[1..]; } else { break } }`
RECURSIVE WStringScan(_, _)
WStringScan(buf, cursor) ==
    IF cursor + 2 <= Len(buf)
    THEN LET a == buf[cursor + 1]
             b == buf[cursor + 2]
         IN  IF a # 34 \/ (a = 34 /\ b = 34)
             THEN WStringScan(buf, cursor + 1)
             ELSE cursor
    ELSE cursor

\* WString::parse
WStringParse(buf, input, offset) ==
    LET t == Tagged(<<34>>, buf, input) IN
    IF ~t.ok THEN PErr({}) ELSE
    LET rest == t.rest
        cursor == WStringScan(buf, rest)
        content == StringKey(rest - input + offset, cursor - rest, rest)
        q == Tagged(<<34>>, buf, cursor)
    IN  IF q.ok THEN POk(q.rest, content, {LogKey(content)})
        ELSE PErr({LogKey(content)})

\* RawString::parse, its loop:
\* `while let &[a, b, ref rest @ ..] = cursor {
\*      if a != b'>' || b != b'>' { cursor = &cursor[1..]; } else { break } }`
RECURSIVE RawStringScan(_, _)
RawStringScan(buf, cursor) ==
    IF cursor + 2 <= Len(buf)
    THEN LET a == buf[cursor + 1]
             b == buf[cursor + 2]
         IN  IF a # 62 \/ b # 62
             THEN RawStringScan(buf, cursor + 1)
             ELSE cursor
    ELSE cursor

\* RawString::parse
RawStringParse(buf, input, offset) ==
    LET t == Tagged(<<60, 60>>, buf, input) IN
    IF ~t.ok THEN PErr({}) ELSE
    LET rest == t.rest
        cursor == RawStringScan(buf, rest)
        content == StringKey(rest - input + offset, cursor - rest, rest)
        q == Tagged(<<62, 62>>, buf, cursor)
    IN  IF q.ok THEN POk(q.rest, content, {LogKey(content)})
        ELSE PErr({LogKey(content)})

\* A result with more of the log in front of its own
WithLog(r, log) == [r EXCEPT !.log = log \cup r.log]

\* ValueComponent::Text / String / RawString
Component(kind, content) == [kind |-> kind, content |-> content]

\* The println! of a parsed component: e.get_str(content).unwrap()
Printed(buf, r, kind, log) ==
    IF GetStrOk(buf, r.val)
    THEN POk(r.rest, Component(kind, r.val), log \cup r.log)
    ELSE PPanic(log \cup r.log)

\* ValueComponent::parse: `(rest, offset + 1)` after a `_`, else `(input, offset)`
UnderscoreOffset(underscored, offset) == IF underscored THEN offset + 1 ELSE offset

\* ValueComponent::parse, the last alternative: Text, `if !underscored`
ComponentTryText(buf, input, underscored, off, log) ==
    IF ~underscored
    THEN Printed(buf, TextParse(buf, input, off), "Text", log)
    ELSE PErr(log)

\* ValueComponent::parse, the second alternative: RawString, r its result
ComponentTryRaw(buf, input, underscored, off, log, r) ==
    IF r.st = "ok" THEN Printed(buf, r, "RawString", log)
    ELSE ComponentTryText(buf, input, underscored, off, log \cup r.log)

\* ValueComponent::parse, the first alternative: WString, s its result
ComponentTryString(buf, input, underscored, rest, off, s) ==
    IF s.st = "ok" THEN Printed(buf, s, "String", {})
    ELSE ComponentTryRaw(buf, input, underscored, off, s.log,
                         RawStringParse(buf, rest, off))

\* ValueComponent::parse after `tagged(b"_", input)`, u its result
ComponentAfterUnderscore(buf, input, underscored, rest, off) ==
    ComponentTryString(buf, input, underscored, rest, off, WStringParse(buf, rest, off))

\* ValueComponent::parse
ValueComponentParse(buf, input, offset) ==
    ComponentAfterUnderscore(buf, input, StartsWith(buf, input, <<95>>),
                             Tagged(<<95>>, buf, input).rest,
                             UnderscoreOffset(StartsWith(buf, input, <<95>>), offset))

\* Value::parse, the textdomain attempt after `+` and a newline:
\* `TextDomain::parse(e, input, offset(rest))`
DomainAttempt(buf, input, offset, rest) ==
    TextDomainParse(buf, input, rest - input + offset)

\* One continuation of a Value: (Option<TextDomain>, ValueComponent)
Continuation(domain, component) == [domain |-> domain, component |-> component]

RECURSIVE ValueLoop(_, _, _, _, _)

\* Value::parse, its loop: `vec.push((domain, next)); cursor = rest;`
ValueLoopPush(buf, input, offset, vec, domain, log, next) ==
    IF next.st # "ok" THEN WithLog(next, log)
    ELSE WithLog(ValueLoop(buf, input, offset, next.rest,
                           Append(vec, Continuation(domain, next.val))),
                 log \cup next.log)

\* Value::parse, its loop: the value component that has to follow
ValueLoopComponent(buf, input, offset, vec, rest, domain, log) ==
    ValueLoopPush(buf, input, offset, vec, domain, log,
                  ValueComponentParse(buf, rest, rest - input + offset))

\* Value::parse, its loop: after the newline, td the result of the textdomain attempt
ValueLoopDomain(buf, input, offset, vec, rest, td) ==
    IF td.st = "panic" THEN td
    ELSE IF td.st = "ok"
    THEN ValueLoopComponent(buf, input, offset, vec, td.rest, <<td.val>>, td.log)
    ELSE ValueLoopComponent(buf, input, offset, vec, rest, <<>>, td.log)

\* Value::parse, its loop: after the `+`, n the result of `tagged(b"\n", rest)`
ValueLoopPlus(buf, input, offset, vec, rest, n) ==
    IF n.ok
    THEN ValueLoopDomain(buf, input, offset, vec, n.rest,
                         DomainAttempt(buf, input, offset, n.rest))
    ELSE ValueLoopComponent(buf, input, offset, vec, rest, <<>>, {})

\* Value::parse, its loop: [st, rest, val (the continuations), log]
ValueLoop(buf, input, offset, cursor, vec) ==
    IF ~StartsWith(buf, cursor, <<43>>) THEN POk(cursor, vec, {})
    ELSE ValueLoopPlus(buf, input, offset, vec, cursor + 1,
                       Tagged(<<10>>, buf, cursor + 1))

\* Value { first, rest }
ValueOf(first, loop) ==
    IF loop.st # "ok" THEN WithLog(loop, first.log)
    ELSE POk(loop.rest, [first |-> first.val, rest |-> loop.val], first.log \cup loop.log)

\* Value::parse after the first component
ValueAfterFirst(buf, input, offset, first) ==
    IF first.st # "ok" THEN first
    ELSE ValueOf(first, ValueLoop(buf, input, offset, first.rest, <<>>))

\* Value::parse
ValueParse(buf, input, offset) ==
    ValueAfterFirst(buf, input, offset, ValueComponentParse(buf, input, offset))

RECURSIVE KeySequenceLoop(_, _, _, _, _)

\* KeySequence::parse, its loop: `names.push(name); cursor = rest;`
KeySequenceLoopPush(buf, input, offset, names, name) ==
    IF name.st # "ok" THEN PErr(name.log)
    ELSE WithLog(KeySequenceLoop(buf, input, offset, name.rest, Append(names, name.val)),
                 name.log)

\* KeySequence::parse, its loop: [st, rest, val (the names), log]
KeySequenceLoop(buf, input, offset, cursor, names) ==
    IF ~StartsWith(buf, cursor, <<44>>) THEN POk(cursor, names, {})
    ELSE KeySequenceLoopPush(buf, input, offset, names,
                             NameParse(buf, cursor + 1, cursor + 1 - input + offset))

\* KeySequence { first, names }
KeySequenceOf(first, loop) ==
    IF loop.st # "ok" THEN WithLog(loop, first.log)
    ELSE POk(loop.rest, [first |-> first.val, names |-> loop.val], first.log \cup loop.log)

\* KeySequence::parse after the first name
KeySequenceAfterFirst(buf, input, offset, first) ==
    IF first.st # "ok" THEN PErr(first.log)
    ELSE KeySequenceOf(first, KeySequenceLoop(buf, input, offset, first.rest, <<>>))

\* KeySequence::parse
KeySequenceParse(buf, input, offset) ==
    KeySequenceAfterFirst(buf, input, offset, NameParse(buf, input, offset))

\* Attribute::parse after the value: `tagged(b"\n", rest)?` and the Attribute
AttributeAfterValue(buf, domain, ks, log, value) ==
    IF value.st # "ok" THEN WithLog(value, log)
    ELSE IF ~StartsWith(buf, value.rest, <<10>>) THEN PErr(log \cup value.log)
    ELSE POk(value.rest + 1,
             [kind |-> "Attr", domain |-> domain, key_sequence |-> ks.val,
              value |-> value.val],
             log \cup value.log)

\* Attribute::parse after the key sequence: the println!, `tagged(b"=", rest)?`
AttributeAfterKeys(buf, input, offset, domain, log, ks) ==
    IF ks.st # "ok" THEN WithLog(ks, log)
    ELSE IF ~GetStrOk(buf, ks.val.first) THEN PPanic(log \cup ks.log)
    ELSE IF ~StartsWith(buf, ks.rest, <<61>>) THEN PErr(log \cup ks.log)
    ELSE AttributeAfterValue(buf, domain, ks, log \cup ks.log,
                             ValueParse(buf, ks.rest + 1, ks.rest + 1 - input + offset))

\* Attribute::parse after the optional textdomain
AttributeAfterDomain(buf, input, offset, rest, domain, log) ==
    AttributeAfterKeys(buf, input, offset, domain, log,
                       KeySequenceParse(buf, rest, rest - input + offset))

\* Attribute::parse, td the result of TextDomain::parse
AttributeOfDomain(buf, input, offset, td) ==
    IF td.st = "panic" THEN td
    ELSE IF td.st = "ok"
    THEN AttributeAfterDomain(buf, input, offset, td.rest, <<td.val>>, td.log)
    ELSE AttributeAfterDomain(buf, input, offset, input, <<>>, td.log)

\* Attribute::parse
AttributeParse(buf, input, offset) ==
    AttributeOfDomain(buf, input, offset, TextDomainParse(buf, input, offset))

\* Tag::parse, the closure `offset`, with a bug: the offset of `input` is left out
SliceOffsetRelative(slc, input, offset) == slc - input

\* The closure `offset`: `slc.as_ptr() as usize - input.as_ptr() as usize + offset`
SliceOffset(slc, input, offset) == slc - input + offset

\* Tag::parse, the comparison of the names, with a bug: the lengths alone
NamesEqualByLen(buf, input, offset, name, name_again) ==
    name.len = name_again.len

\* Tag::parse: `name_c != name_again` is false, both sliced out of `input` at
\* `key.idx - offset(input)`
NamesEqual(buf, input, offset, name, name_again) ==
    LET name_base == name.idx - SliceOffset(input, input, offset)
        name_again_base == name_again.idx - SliceOffset(input, input, offset)
    IN  SubSeq(buf, input + name_base + 1, input + name_base + name.len)
          = SubSeq(buf, input + name_again_base + 1,
                   input + name_again_base + name_again.len)

RECURSIVE TagParse(_, _, _), TagLoop(_, _, _, _, _)

\* TagOrAttr::parse, tag the result of Tag::parse
TagOrAttrOf(buf, input, offset, tag) ==
    IF tag.st # "err" THEN tag
    ELSE WithLog(AttributeParse(buf, input, offset), tag.log)

\* TagOrAttr::parse
TagOrAttrParse(buf, input, offset) ==
    TagOrAttrOf(buf, input, offset, TagParse(buf, input, offset))

\* Tag::parse, its loop: `content.push(tag_or_attr); cursor = rest;` or `break`
TagLoopPush(buf, input, offset, cursor, content, child) ==
    IF child.st = "panic" THEN child
    ELSE IF child.st = "err" THEN POk(cursor, content, child.log)
    ELSE WithLog(TagLoop(buf, input, offset, child.rest, Append(content, child.val)),
                 child.log)

\* Tag::parse, its loop after `cursor = tagged_many0(b"\n".or(b"\t"), cursor)`
TagLoopAt(buf, input, offset, cursor, content) ==
    TagLoopPush(buf, input, offset, cursor, content,
                TagOrAttrParse(buf, cursor, SliceOffset(cursor, input, offset)))

\* Tag::parse, its loop: [st, rest (the cursor at the break), val (content), log]
TagLoop(buf, input, offset, cursor, content) ==
    TagLoopAt(buf, input, offset, TaggedMany0(NlOrTab, buf, cursor), content)

\* Tag { name, content }; `close` records the key of the closing name
TagOf(name, name_again, content) ==
    [kind |-> "Tag", name |-> name, close |-> name_again, content |-> content]

\* Tag::parse after the closing name: the comparison, `]`, the trailing skip
TagAfterNameAgain(buf, input, offset, name, loop, log, name_again) ==
    IF name_again.st # "ok" THEN PErr(log \cup name_again.log)
    ELSE IF ~NamesEqual(buf, input, offset, name.val, name_again.val)
    THEN PErr(log \cup name_again.log \cup {LogMismatch(name.val)})
    ELSE IF ~StartsWith(buf, name_again.rest, <<93>>) THEN PErr(log \cup name_again.log)
    ELSE POk(TaggedMany0(NlOrTab, buf, name_again.rest + 1),
             TagOf(name.val, name_again.val, loop.val),
             log \cup name_again.log)

\* Tag::parse after the children: `tagged(b"[/", cursor)?` and the closing name
TagAfterContent(buf, input, offset, name, loop) ==
    IF loop.st = "panic" THEN WithLog(loop, name.log)
    ELSE IF ~StartsWith(buf, loop.rest, <<91, 47>>) THEN PErr(name.log \cup loop.log)
    ELSE TagAfterNameAgain(buf, input, offset, name, loop, name.log \cup loop.log,
                           NameParse(buf, loop.rest + 2,
                                     SliceOffset(loop.rest + 2, input, offset)))

\* Tag::parse after the opening name: `]`, the skip, the children
TagAfterName(buf, input, offset, name) ==
    IF name.st # "ok" THEN PErr(name.log)
    ELSE IF ~StartsWith(buf, name.rest, <<93>>) THEN PErr(name.log)
    ELSE TagAfterContent(buf, input, offset, name,
                         TagLoop(buf, input, offset,
                                 TaggedMany0(NlOrTab, buf, name.rest + 1), <<>>))

\* Tag::parse
TagParse(buf, input, offset) ==
    IF ~StartsWith(buf, input, <<91>>) THEN PErr({})
    ELSE TagAfterName(buf, input, offset,
                      NameParse(buf, input + 1, SliceOffset(input + 1, input, offset)))

(***************************************************************************)
(* DocProcessor                                                            *)
(***************************************************************************)
\* how many documents are parsed into the arena before it has to be reset
MaxParses == 2

RECURSIVE DocLoop(_, _, _)

\* DocProcessor::parse, its loop: `cursor = rest; top.push(tag_or_attr);`
DocLoopPush(buf, cursor, top, r) ==
    IF r.st = "panic" THEN r
    ELSE IF r.st = "err" THEN POk(cursor, top, r.log)
    ELSE WithLog(DocLoop(buf, r.rest, Append(top, r.val)), r.log)

\* DocProcessor::parse, its loop: [st, rest (the cursor at the end), val (top), log]
DocLoop(buf, cursor, top) ==
    DocLoopPush(buf, cursor, top, TagOrAttrParse(buf, cursor, cursor))

\* DocProcessor::parse: `offset(cursor) == buf.len()`
EndReached(buf, cursor) == cursor = Len(buf)

\* No Doc, no error: parse has not been called, or its result was dropped.
NoDoc == [res |-> "none", top |-> <<>>, cursor |-> 0, log |-> {}]

\* DocProcessor::parse after its loop
ParseOf(buf, loop) ==
    IF loop.st = "panic"
    THEN [res |-> "panic", top |-> <<>>, cursor |-> 0, log |-> loop.log]
    ELSE IF EndReached(buf, loop.rest)
    THEN [res |-> "doc", top |-> loop.val, cursor |-> loop.rest, log |-> loop.log]
    ELSE [res |-> "err", top |-> <<>>, cursor |-> loop.rest, log |-> loop.log]

\* DocProcessor::parse(buf): res is "doc" (Ok(Doc { top, text })), "err" (Err(()))
\* or "panic"; cursor is where the loop stopped.
ParseResult(buf) == ParseOf(buf, DocLoop(buf, 0, <<>>))

\* `bump::Vec::new_in`, with a bug: the vector starts with what the arena holds
NewInStale(a) == [i \in 1 .. a |-> [kind |-> "Attr", domain |-> <<>>,
                                    key_sequence |-> [first |-> StringKey(0, 1, 0), names |-> <<>>],
                                    value |-> [first |-> Component("Text", StringKey(0, 0, 0)), rest |-> <<>>]]]

\* `bump::Vec::new_in(&self.arena)`: an empty vector, whatever the arena holds
NewIn(a) == <<>>

\* DocProcessor::parse(buf) on a processor whose arena holds a parses
ParseResultIn(a, buf) == ParseOf(buf, DocLoop(buf, 0, NewIn(a)))

\* The state after processor.parse(text) returned r, or aborted
Parsed(r) ==
    /\ doc' = r
    /\ pc' = IF r.res = "panic" THEN "panicked" ELSE "wml"

\* processor.parse(buf)
ParseBuf(buf) ==
    /\ pc = "wml"
    /\ arena < MaxParses
    /\ doc.res = "none"
    /\ text' = buf
    /\ Parsed(ParseResultIn(arena, buf))
    /\ arena' = arena + 1
    /\ UNCHANGED <<made, peer, pos, sent, streamVars, mainVars, lexVars, relayVars>>

\* processor.parse(text)
Parse == ParseBuf(text) /\ UNCHANGED ops

\* The caller drops the Doc, or the error.
DropDoc ==
    /\ pc = "wml"
    /\ doc.res \in {"doc", "err"}
    /\ doc' = NoDoc
    /\ UNCHANGED <<text, arena, ops, made, connVars, streamVars, mainVars, lexVars, relayVars>>

\* processor.reset(): `self.arena.reset()`; it takes &mut self, so no Doc is alive.
ResetArena ==
    /\ pc = "wml"
    /\ doc.res \in {"none", "err"}
    /\ arena' = 0
    /\ UNCHANGED <<text, doc, made, connVars, streamVars, mainVars, lexVars, relayVars>>

\* processor.reset()
Reset == ResetArena /\ UNCHANGED ops

\* how many fragments a document of the model is put together from
MaxTokens == 4

\* The fragments: '[a]\n', '[/a]\n', '[/b]', '[b]', 'k="v"\n', 'x,y=_<<r>>+t\n', '#textdomain d\n', '[/a', 'k=\xff\n',
\* 'k="a""\n', 'k=#textdomain d+\nx\n'
DocTokens ==
    { <<91, 97, 93, 10>>,
      <<91, 47, 97, 93, 10>>,
      <<91, 47, 98, 93>>,
      <<91, 98, 93>>,
      <<107, 61, 34, 118, 34, 10>>,
      <<120, 44, 121, 61, 95, 60, 60, 114, 62, 62, 43, 116, 10>>,
      <<35, 116, 101, 120, 116, 100, 111, 109, 97, 105, 110, 32, 100, 10>>,
      <<91, 47, 97>>,
      <<107, 61, 255, 10>>,
      <<107, 61, 34, 97, 34, 34, 10>>,
      <<107, 61>> \o TextDomainTag \o <<32, 100, 43, 10, 120, 10>> }

\* The documents of the model: up to MaxTokens fragments of `tokens` in a row.
Documents(tokens) ==
    { Flatten(ts) : ts \in UNION { [1 .. n -> tokens] : n \in 0 .. MaxTokens } }

InitParse ==
    /\ text \in Documents(DocTokens)
    /\ arena = 0
    /\ doc = NoDoc
    /\ ops = <<>>
    /\ made = <<>>
    /\ pc = "wml"
    /\ peer = <<>>
    /\ pos = 0
    /\ sent = <<>>
    /\ IdleStream
    /\ IdleMain
    /\ IdleRelay
    /\ IdleLex

NextParse ==
    \/ Parse
    \/ DropDoc
    \/ Reset

SpecParse == InitParse /\ [][NextParse]_vars

(***************************************************************************)
(* Claims about DocProcessor::parse, checked under SpecParse.              *)
(***************************************************************************)
\* The top-level production applied again and again from position p, each time
\* at the slice's true offset: where it stops, why, and how often it matched.
RECURSIVE Replay(_, _, _)
Replay(buf, p, n) ==
    LET r == TagOrAttrParse(buf, p, p)
    IN  IF r.st = "ok" THEN Replay(buf, r.rest, n + 1)
        ELSE [end |-> p, st |-> r.st, count |-> n]

\* The repeated production stopped because it no longer matched, and it
\* stopped at the end of the buffer.
ConsumedToEnd(buf) ==
    LET r == Replay(buf, 0, 0)
    IN  r.st = "err" /\ r.end = Len(buf)

\* C7: parse returns a Doc exactly when the repeated top-level production
\* consumes the buffer to its end, and whenever bytes are left unconsumed it
\* returns an error; the Doc has one top-level child per match, and the empty
\* buffer gives a Doc without children.
C7_DocIffAllConsumed ==
    doc.res # "none" =>
        /\ (doc.res = "doc" <=> ConsumedToEnd(text))
        /\ (~ConsumedToEnd(text) => doc.res = "err")
        /\ (doc.res = "doc" => Len(doc.top) = Replay(text, 0, 0).count)
        /\ (text = <<>> => doc.res = "doc" /\ doc.top = <<>>)

\* The bytes of the buffer that start at position `at` and are len long.
BytesAt(buf, at, len) == SubSeq(buf, at + 1, at + len)

\* Every Tag among the nodes, at any depth, closes with the name it opens with.
RECURSIVE TagsBalanced(_, _)
TagsBalanced(buf, nodes) ==
    \A i \in 1 .. Len(nodes) :
        nodes[i].kind = "Tag" =>
            /\ BytesAt(buf, nodes[i].name.at, nodes[i].name.len)
                 = BytesAt(buf, nodes[i].close.at, nodes[i].close.len)
            /\ TagsBalanced(buf, nodes[i].content)

\* Tag::parse met a closing name that differs from its opening name.
SawMismatch == \E e \in doc.log : e.ev = "mismatch"

\* C8: in a Doc that parse returns every Tag, at any depth, has an opening
\* name equal byte for byte to its closing name, and a parse in which a closing
\* name differed from its opening name returns no Doc.
C8_TagNamesBalanced ==
    /\ (doc.res = "doc" => TagsBalanced(text, doc.top))
    /\ (SawMismatch => doc.res # "doc")

\* A Doc with a Tag inside a Tag.
C8_Witness ==
    /\ doc.res = "doc"
    /\ Len(doc.top) >= 1
    /\ doc.top[1].kind = "Tag"
    /\ Len(doc.top[1].content) >= 1
    /\ doc.top[1].content[1].kind = "Tag"

\* The key's idx is where its bytes really start, and its range is in the buffer.
KeyTrue(buf, key) == key.idx = key.at /\ key.idx + key.len <= Len(buf)

\* The bytes s stand right before the key's range.
KeyAfter(buf, key, s) ==
    key.idx >= Len(s) /\ BytesAt(buf, key.idx - Len(s), Len(s)) = s

\* The bytes s stand right after the key's range.
KeyBefore(buf, key, s) ==
    key.idx + key.len + Len(s) <= Len(buf) /\ BytesAt(buf, key.idx + key.len, Len(s)) = s

\* The key's range is made of bytes of the set only.
KeyOver(buf, key, set) ==
    \A i \in key.idx + 1 .. key.idx + key.len : buf[i] \in set

NameKeyOk(buf, key, before, afters) ==
    /\ KeyTrue(buf, key)
    /\ key.len > 0
    /\ KeyOver(buf, key, NameBytes)
    /\ KeyAfter(buf, key, before)
    /\ \E a \in afters : KeyBefore(buf, key, a)

DomainKeyOk(buf, key) ==
    /\ KeyTrue(buf, key)
    /\ key.len > 0
    /\ KeyOver(buf, key, DomainBytes)
    /\ (KeyAfter(buf, key, <<32>>) \/ KeyAfter(buf, key, <<9>>))
    /\ KeyBefore(buf, key, <<10>>)

ComponentKeyOk(buf, c) ==
    /\ KeyTrue(buf, c.content)
    /\ c.kind = "String" =>
           KeyAfter(buf, c.content, <<34>>) /\ KeyBefore(buf, c.content, <<34>>)
    /\ c.kind = "RawString" =>
           KeyAfter(buf, c.content, <<60, 60>>) /\ KeyBefore(buf, c.content, <<62, 62>>)
    /\ c.kind = "Text" =>
           /\ KeyOver(buf, c.content, (0 .. 255) \ {43, 10})
           /\ (KeyBefore(buf, c.content, <<43>>) \/ KeyBefore(buf, c.content, <<10>>))

AttrKeysOk(buf, a) ==
    /\ \A i \in 1 .. Len(a.domain) : DomainKeyOk(buf, a.domain[i])
    /\ NameKeyOk(buf, a.key_sequence.first, <<>>, {<<44>>, <<61>>})
    /\ \A i \in 1 .. Len(a.key_sequence.names) :
           NameKeyOk(buf, a.key_sequence.names[i], <<44>>, {<<44>>, <<61>>})
    /\ ComponentKeyOk(buf, a.value.first)
    /\ \A i \in 1 .. Len(a.value.rest) :
           /\ \A j \in 1 .. Len(a.value.rest[i].domain) :
                  DomainKeyOk(buf, a.value.rest[i].domain[j])
           /\ ComponentKeyOk(buf, a.value.rest[i].component)

RECURSIVE KeysOk(_, _)
KeysOk(buf, nodes) ==
    \A i \in 1 .. Len(nodes) :
        IF nodes[i].kind = "Tag"
        THEN /\ NameKeyOk(buf, nodes[i].name, <<91>>, {<<93>>})
             /\ NameKeyOk(buf, nodes[i].close, <<91, 47>>, {<<93>>})
             /\ KeysOk(buf, nodes[i].content)
        ELSE AttrKeysOk(buf, nodes[i])

\* C9: every StringKey of a Doc that parse returns has as idx the true
\* position of the bytes its production matched, its range lies in the buffer,
\* holds only bytes of the production, and is enclosed by the production's
\* delimiters, which it leaves out.
C9_StringKeyFidelity == doc.res = "doc" => KeysOk(text, doc.top)

\* An underscored raw string in an attribute of a Tag that follows a sibling.
C9_Witness ==
    /\ doc.res = "doc"
    /\ Len(doc.top) >= 2
    /\ doc.top[2].kind = "Tag"
    /\ Len(doc.top[2].content) >= 1
    /\ doc.top[2].content[1].kind = "Attr"
    /\ doc.top[2].content[1].value.first.kind = "RawString"
    /\ Len(doc.top[2].content[1].value.rest) = 1

(***************************************************************************)
(* WString::parse on its own                                               *)
(***************************************************************************)
\* how long the input slices of the lexing functions are
MaxLex == 6

\* b'"', b'a', b'+'
LexBytes == {34, 97, 43}

\* The offsets the input slice is said to have
LexOffsets == {0, 3}

LexInputs ==
    UNION { [1 .. n -> LexBytes] : n \in 0 .. MaxLex }

\* WString::parse(input, offset)
ApplyWString ==
    /\ pc = "lex"
    /\ lexOut' = WStringParse(lexIn.bytes, 0, lexIn.offset)
    /\ pc' = "lexed"
    /\ UNCHANGED <<lexIn, peer, pos, sent, streamVars, mainVars, wmlVars, relayVars>>

InitWString ==
    /\ lexIn \in [bytes : LexInputs, offset : LexOffsets]
    /\ lexOut = <<>>
    /\ pc = "lex"
    /\ peer = <<>>
    /\ pos = 0
    /\ sent = <<>>
    /\ IdleStream
    /\ IdleMain
    /\ IdleRelay
    /\ IdleWml

NextWString == ApplyWString

SpecWString == InitWString /\ [][NextWString]_vars

\* The index in s of the first `"` at or after index i that does not belong to
\* a `""` pair, read as the grammar  '"' ([^"] | '""')* '"'  reads; 0 if none.
RECURSIVE GrammarStringEnd(_, _)
GrammarStringEnd(s, i) ==
    IF i > Len(s) THEN 0
    ELSE IF s[i] # 34 THEN GrammarStringEnd(s, i + 1)
    ELSE IF i + 1 <= Len(s) /\ s[i + 1] = 34 THEN GrammarStringEnd(s, i + 2)
    ELSE i

\* C10: on input that begins with `"`, WString::parse steps over every `""`
\* pair, ends the string at the first `"` outside such a pair, returns the key
\* of the bytes between the delimiters and the rest right after the closing
\* `"`; without a closing `"` it fails.
C10_WStringEscapes ==
    (pc = "lexed" /\ Len(lexIn.bytes) >= 1 /\ lexIn.bytes[1] = 34) =>
        LET e == GrammarStringEnd(lexIn.bytes, 2)
        IN  IF e = 0 THEN lexOut.st = "err"
            ELSE /\ lexOut.st = "ok"
                 /\ lexOut.val.idx = lexIn.offset + 1
                 /\ lexOut.val.len = e - 2
                 /\ lexOut.rest = e

(***************************************************************************)
(* ValueComponent::parse and Value::parse on their own                     *)
(***************************************************************************)
\* how many fragments a value of the model is put together from
MaxValueTokens == 4

\* The fragments: '"v"', 't', '_', '<<r>>', '+', '+\n', '#textdomain d\n'
ValueTokens ==
    { <<34, 118, 34>>,
      <<116>>,
      <<95>>,
      <<60, 60, 114, 62, 62>>,
      <<43>>,
      <<43, 10>>,
      <<35, 116, 101, 120, 116, 100, 111, 109, 97, 105, 110, 32, 100, 10>> }

\* What stands in the buffer before the value: nothing, or 'k='
ValuePrefixes == { <<>>, <<107, 61>> }

\* The buffer of the Printer and the position in it at which the value starts;
\* the caller hands down that position as the offset.
ValueInputs ==
    { [bytes |-> pre \o Flatten(ts), offset |-> Len(pre)] :
        pre \in ValuePrefixes,
        ts \in UNION { [1 .. n -> ValueTokens] : n \in 0 .. MaxValueTokens } }

\* ValueComponent::parse(e, input, offset)
ApplyValueComponent ==
    /\ pc = "lex"
    /\ lexOut' = ValueComponentParse(lexIn.bytes, lexIn.offset, lexIn.offset)
    /\ pc' = "lexed_component"
    /\ UNCHANGED <<lexIn, peer, pos, sent, streamVars, mainVars, wmlVars, relayVars>>

\* Value::parse(e, arena, input, offset)
ApplyValue ==
    /\ pc = "lex"
    /\ lexOut' = ValueParse(lexIn.bytes, lexIn.offset, lexIn.offset)
    /\ pc' = "lexed_value"
    /\ UNCHANGED <<lexIn, peer, pos, sent, streamVars, mainVars, wmlVars, relayVars>>

InitValue ==
    /\ lexIn \in ValueInputs
    /\ lexOut = <<>>
    /\ pc = "lex"
    /\ peer = <<>>
    /\ pos = 0
    /\ sent = <<>>
    /\ IdleStream
    /\ IdleMain
    /\ IdleRelay
    /\ IdleWml

NextValue ==
    \/ ApplyValueComponent
    \/ ApplyValue

SpecValue == InitValue /\ [][NextValue]_vars

\* Where the text production  [^+\n]*  that starts at position p ends.
RECURSIVE GrammarTextEnd(_, _)
GrammarTextEnd(buf, p) ==
    IF p < Len(buf) /\ buf[p + 1] \notin {43, 10} THEN GrammarTextEnd(buf, p + 1) ELSE p

\* A string or a raw string stands at position p.
QuotedAt(buf, p) ==
    WStringParse(buf, p, p).st = "ok" \/ RawStringParse(buf, p, p).st = "ok"

\* C11: a `_` is consumed only when a string or a raw string follows it; a
\* component that begins with `_` and has neither behind the `_` is parsed as
\* Text that starts at the `_` itself, and the parse does not fail.
C11_UnderscoredText ==
    (/\ pc = "lexed_component"
     /\ StartsWith(lexIn.bytes, lexIn.offset, <<95>>)
     /\ ~QuotedAt(lexIn.bytes, lexIn.offset + 1)) =>
        /\ lexOut.st = "ok"
        /\ lexOut.val.kind = "Text"
        /\ lexOut.val.content.idx = lexIn.offset
        /\ lexOut.rest = GrammarTextEnd(lexIn.bytes, lexIn.offset)
        /\ lexOut.val.content.len = lexOut.rest - lexIn.offset

\* The value components among the fragments: '"v"', 't', '<<r>>'
ComponentTokens == { <<34, 118, 34>>, <<116>>, <<60, 60, 114, 62, 62>> }

\* '#textdomain d\n'
TextDomainLine == TextDomainTag \o <<32, 100, 10>>

\* The bytes of the value: the buffer from the position the parse starts at.
ValueBytes == Drop(lexIn.bytes, lexIn.offset)

\* C12: Value::parse accepts a continuation made of `+`, a newline, a
\* textdomain line and a value component, and records it with that TextDomain;
\* a continuation without the textdomain line is recorded with no TextDomain.
C12_TextDomainContinuation ==
    pc = "lexed_value" =>
        \A c1 \in ComponentTokens, c2 \in ComponentTokens :
            /\ ValueBytes = c1 \o <<43, 10>> \o TextDomainLine \o c2 =>
                   /\ lexOut.st = "ok"
                   /\ lexOut.rest = Len(lexIn.bytes)
                   /\ Len(lexOut.val.rest) = 1
                   /\ Len(lexOut.val.rest[1].domain) = 1
                   /\ lexOut.val.rest[1].domain[1].idx
                        = lexIn.offset + Len(c1) + 2 + Len(TextDomainTag) + 1
                   /\ lexOut.val.rest[1].domain[1].len = 1
            /\ ValueBytes \in { c1 \o <<43>> \o c2, c1 \o <<43, 10>> \o c2 } =>
                   /\ lexOut.st = "ok"
                   /\ lexOut.rest = Len(lexIn.bytes)
                   /\ Len(lexOut.val.rest) = 1
                   /\ lexOut.val.rest[1].domain = <<>>

(***************************************************************************)
(* One DocProcessor used for document after document                       *)
(***************************************************************************)
\* how many calls of parse and reset are made on the one processor
MaxOps == 4

\* The documents handed to the processor: '', 'k="v"\n', '[a]\n[/a]\n',
\* '[a]\nk="v"\n[/a]\n', '[/a', '[b]\n[/a]\n'
ReuseDocuments ==
    { <<>>,
      <<107, 61, 34, 118, 34, 10>>,
      <<91, 97, 93, 10, 91, 47, 97, 93, 10>>,
      <<91, 97, 93, 10, 107, 61, 34, 118, 34, 10, 91, 47, 97, 93, 10>>,
      <<91, 47, 97>>,
      <<91, 98, 93, 10, 91, 47, 97, 93, 10>> }

OpParse(buf) == [op |-> "parse", buf |-> buf]
OpReset == [op |-> "reset", buf |-> <<>>]

\* processor.parse(buf) for the next document
ReuseParse ==
    /\ Len(ops) < MaxOps
    /\ \E buf \in ReuseDocuments :
           /\ ParseBuf(buf)
           /\ ops' = Append(ops, OpParse(buf))

\* processor.reset() between documents
ReuseReset ==
    /\ Len(ops) < MaxOps
    /\ ResetArena
    /\ ops' = Append(ops, OpReset)

InitReuse ==
    /\ text = <<>>
    /\ arena = 0
    /\ doc = NoDoc
    /\ ops = <<>>
    /\ made = <<>>
    /\ pc = "wml"
    /\ peer = <<>>
    /\ pos = 0
    /\ sent = <<>>
    /\ IdleStream
    /\ IdleMain
    /\ IdleRelay
    /\ IdleLex

NextReuse ==
    \/ ReuseParse
    \/ DropDoc
    \/ ReuseReset

SpecReuse == InitReuse /\ [][NextReuse]_vars

\* The last call on the processor was parse, and its result is still held.
ResultHeld ==
    /\ ops # <<>>
    /\ ops[Len(ops)].op = "parse"
    /\ doc.res # "none"

MaxBodyLines == 2

\* how many tags and attributes stand at top level (tests::parse_users: two)
TopItems == 2

\* The attributes: 'k="v"\n', 'e=""\n', and 'k="\xff"\n'
AttrLines ==
    { <<107, 61, 34, 118, 34, 10>>,
      <<101, 61, 34, 34, 10>>,
      <<107, 61, 34, 255, 34, 10>> }

\* The lines of a tag's body: attributes, a blank line, a tab
BodyLines == AttrLines \cup { <<10>>, <<9>> }

Bodies == UNION { [1 .. n -> BodyLines] : n \in 0 .. MaxBodyLines }

\* '[a]\n'
OpenTag == <<91, 97, 93, 10>>

\* '[/a]' and '[/a]\n'
CloseTags == { <<91, 47, 97, 93>>, <<91, 47, 97, 93, 10>> }

\* Where in the tag's bytes the attributes of the body start, in input order.
AttrStarts(body) ==
    LET idxs == SelectSeq([i \in 1 .. Len(body) |-> i], LAMBDA i : body[i] \in AttrLines)
    IN  [j \in 1 .. Len(idxs) |->
            Len(OpenTag) + Len(Flatten(SubSeq(body, 1, idxs[j] - 1)))]

AttrItems == { [kind |-> "Attr", bytes |-> a, attrs |-> <<>>] : a \in AttrLines }

TagItems ==
    { [kind |-> "Tag", bytes |-> OpenTag \o Flatten(b) \o c, attrs |-> AttrStarts(b)] :
        b \in Bodies, c \in CloseTags }

SimpleItems == AttrItems \cup TagItems

\* The bytes of the document written from the items.
Written(items) == Flatten([i \in 1 .. Len(items) |-> items[i].bytes])

InitSimple ==
    /\ made \in UNION { [1 .. n -> SimpleItems] : n \in 0 .. TopItems }
    /\ text = Written(made)
    /\ arena = 0
    /\ doc = NoDoc
    /\ ops = <<>>
    /\ pc = "wml"
    /\ peer = <<>>
    /\ pos = 0
    /\ sent = <<>>
    /\ IdleStream
    /\ IdleMain
    /\ IdleRelay
    /\ IdleLex

SpecSimple == InitSimple /\ [][NextParse]_vars

\* Where in the document the i-th item starts.
ItemStart(i) == Len(Written(SubSeq(made, 1, i - 1)))

\* The node is the tag or attribute the i-th item was written as.
NodeOfItem(node, i) ==
    /\ node.kind = made[i].kind
    /\ node.kind = "Attr" => node.key_sequence.first.idx = ItemStart(i)
    /\ node.kind = "Tag" =>
           /\ node.name.idx = ItemStart(i) + 1
           /\ Len(node.content) = Len(made[i].attrs)
           /\ \A j \in 1 .. Len(node.content) :
                  /\ node.content[j].kind = "Attr"
                  /\ node.content[j].key_sequence.first.idx = ItemStart(i) + made[i].attrs[j]

\* C14: parse accepts every document written from tags '[a]\n', attributes
\* key="value"\n and blank lines, '[/a]' with or without a newline, and from
\* such attributes at top level; the Doc has one top-level node per item and
\* every Tag one child per attribute, in input order, and none for a body of
\* newlines and tabs only.
C14_PlainDocumentsAccepted ==
    doc.res # "none" =>
        /\ doc.res = "doc"
        /\ Len(doc.top) = Len(made)
        /\ \A i \in 1 .. Len(made) : NodeOfItem(doc.top[i], i)

(***************************************************************************)
(* Claims about the keys and the outcome of a parse, under SpecParse       *)
(***************************************************************************)
\* C15: every StringKey constructed during a parse, those of abandoned
\* attempts and those handed to the effects handler included, lies within the
\* buffer: idx + len <= buf.len().
C15_KeysInBuffer ==
    \A e \in doc.log : e.ev = "key" => e.idx + e.len <= Len(text)

\* C16: parse returns a Doc or an error for every buffer; it never aborts.
C16_ParseTotal ==
    /\ doc.res # "panic"
    /\ pc # "panicked"

(***************************************************************************)
(* process_msg and run_middle (src/mitm/src/main.rs)                       *)
(***************************************************************************)
\* `[0, 0, 0, 42, ..]` for Side::Server, `[0, 0, 0, 0, ..]` for Side::Client
SideHandshake(s) == IF s = "Server" THEN <<0, 0, 0, 42>> ELSE <<0, 0, 0, 0>>

\* tracing::info!("{}: {:?}", side.name(), &rest[..len])
LogFrame(s, bytes) == [ev |-> "frame", side |-> s, bytes |-> bytes]

\* tracing::warn!("incorrect ... handshake [{}, {}, {}, {}]", a, b, c, d)
LogHandshake(s, bytes) == [ev |-> "incorrect handshake", side |-> s, bytes |-> bytes]

\* The closure's State::PreHandshake arm on the extended buf
PreHandshakeArm(s, buf, log) ==
    IF Len(buf) >= 4 /\ SubSeq(buf, 1, 4) = SideHandshake(s)
    THEN [buf |-> Drop(buf, 4), state |-> "Normal", log |-> log]
    ELSE IF Len(buf) >= 4
    THEN [buf |-> Drop(buf, 4), state |-> "Normal",
          log |-> Append(log, LogHandshake(s, SubSeq(buf, 1, 4)))]
    ELSE [buf |-> buf, state |-> "PreHandshake", log |-> log]

\* The closure's State::Normal arm on the extended buf:
\* `while let [a, b, c, d, ref rest @ ..] = *buf { if rest.len() >= len { ..
\*  buf.drain(..4 + len); } else { break } }`
RECURSIVE NormalArm(_, _, _)
NormalArm(s, buf, log) ==
    IF HasFrame(buf)
    THEN NormalArm(s, Drop(buf, 4 + FrameLen(buf)),
                   Append(log, LogFrame(s, SubSeq(buf, 5, 4 + FrameLen(buf)))))
    ELSE [buf |-> buf, state |-> "Normal", log |-> log]

\* The closure process_msg returns, called with msg: `buf.extend(msg); match state`
OnMsg(s, state, buf, log, msg) ==
    IF state = "PreHandshake"
    THEN PreHandshakeArm(s, buf \o msg, log)
    ELSE NormalArm(s, buf \o msg, log)

\* on_msg(&buf) in run_middle, r what the closure leaves behind
Shown(msg, r) ==
    /\ seen' = seen \o msg
    /\ ibuf' = r.buf
    /\ istate' = r.state
    /\ decoded' = r.log

\* run_middle: read_buf gives Ok(n), n != 0; on_msg; write_all gives Ok(()); clear
RelayForward ==
    /\ pc = "relay"
    /\ \E n \in ChunkSizes :
           /\ pos' = pos + n
           /\ Shown(Chunk(n), OnMsg(side, istate, ibuf, decoded, Chunk(n)))
           /\ sent' = sent \o Chunk(n)
    /\ UNCHANGED <<peer, pc, side, link, streamVars, mainVars, wmlVars, lexVars>>

\* run_middle: read_buf gives Ok(n), n != 0; on_msg; write_all gives Err after
\* k of the bytes went out; the warning; clear
RelayWriteFails ==
    /\ pc = "relay"
    /\ \E n \in ChunkSizes :
           /\ pos' = pos + n
           /\ Shown(Chunk(n), OnMsg(side, istate, ibuf, decoded, Chunk(n)))
           /\ \E k \in 0 .. n - 1 : sent' = sent \o SubSeq(Chunk(n), 1, k)
    /\ UNCHANGED <<peer, pc, side, link, streamVars, mainVars, wmlVars, lexVars>>

\* run_middle: read_buf gives Ok(0): "connection ended", break
RelayEof ==
    /\ pc = "relay"
    /\ pos = Len(peer)
    /\ pc' = "relay_done"
    /\ link' = "eof"
    /\ UNCHANGED <<peer, pos, sent, ibuf, istate, side, decoded, seen,
                   streamVars, mainVars, wmlVars, lexVars>>

\* run_middle: read_buf gives Err(e): the arm that warns "read failure"
RelayReadErr ==
    /\ pc = "relay"
    /\ pc' = "relay_warn"
    /\ link' = "failed"
    /\ UNCHANGED <<peer, pos, sent, ibuf, istate, side, decoded, seen,
                   streamVars, mainVars, wmlVars, lexVars>>

\* run_middle: after the warning the match ends and `loop` goes round again
RelayRetry ==
    /\ pc = "relay_warn"
    /\ pc' = "relay"
    /\ UNCHANGED <<peer, pos, sent, relayVars, streamVars, mainVars, wmlVars, lexVars>>

\* Frames without compression: a byte, two bytes, none
FrameOne == <<0, 0, 0, 1, 65>>
FrameTwo == <<0, 0, 0, 2, 66, 67>>
FrameNone == <<0, 0, 0, 0>>

\* What a source half sends: a handshake, right or wrong for the side, and
\* frames; a frame that is cut short; less than a handshake.
RelayStreams ==
    { hs \o body :
        hs \in { <<0, 0, 0, 0>>, <<0, 0, 0, 42>> },
        body \in { <<>>, FrameOne, FrameOne \o FrameTwo, FrameNone \o FrameOne,
                   <<0, 0, 0, 5, 1>> } }
    \cup { <<0, 0>> }

InitRelay ==
    /\ peer \in RelayStreams
    /\ pos = 0
    /\ sent = <<>>
    /\ pc = "relay"
    /\ ibuf = <<>>
    /\ istate = "PreHandshake"
    /\ side \in {"Server", "Client"}
    /\ decoded = <<>>
    /\ seen = <<>>
    /\ link = "open"
    /\ IdleStream
    /\ IdleMain
    /\ IdleWml
    /\ IdleLex

NextRelay ==
    \/ RelayForward
    \/ RelayWriteFails
    \/ RelayEof
    \/ RelayReadErr
    \/ RelayRetry

SpecRelay == InitRelay /\ [][NextRelay]_vars

\* The task is scheduled again and again; what its reads and writes give is
\* up to the sockets.
SpecRelayFair == SpecRelay /\ WF_vars(NextRelay)

\* The bodies of the complete frames at the head of the bytes, in order.
RECURSIVE CompleteFrames(_)
CompleteFrames(bytes) ==
    IF Len(bytes) >= 4 /\ Len(bytes) - 4 >= FromBeBytes(bytes[1], bytes[2], bytes[3], bytes[4])
    THEN <<SubSeq(bytes, 5, 4 + FromBeBytes(bytes[1], bytes[2], bytes[3], bytes[4]))>>
         \o CompleteFrames(Drop(bytes, 4 + FromBeBytes(bytes[1], bytes[2], bytes[3], bytes[4])))
    ELSE <<>>

\* The frames the closure has logged, in order.
LoggedFrames ==
    LET fs == SelectSeq(decoded, LAMBDA e : e.ev = "frame")
    IN  [i \in 1 .. Len(fs) |-> fs[i].bytes]

\* C17: whenever the closure has returned and at least four bytes of the
\* direction have arrived, every complete frame that arrived after the four
\* handshake bytes has been logged and drained, so that the closure's buffer
\* does not start with a complete frame, however the stream was cut in chunks.
C17_FramesDrainedOnReturn ==
    Len(seen) >= 4 =>
        /\ ~HasFrame(ibuf)
        /\ LoggedFrames = CompleteFrames(Drop(seen, 4))

\* C18: the bytes written to the destination half are the bytes read from the
\* source half so far, in their order, and they have been shown to on_msg.
C18_LosslessRelay ==
    /\ sent = SubSeq(peer, 1, pos)
    /\ seen = SubSeq(peer, 1, pos)

\* C19: once the source half has reported the end of the stream or a read
\* error, run_middle leaves its loop.
C19_RelayTerminates == (link # "open") ~> (pc = "relay_done")

====
